---- MODULE Spec2Model ----
(***************************************************************************)
(* Model of static/js/script.js, the admin dashboard page script.          *)
(*                                                                         *)
(* The script is one document-ready handler that registers four            *)
(* behaviours: the final-price calculator, the image preview of file       *)
(* inputs, the confirmation guard of delete forms, and the conversion of   *)
(* server-rendered alerts into toasts with a 5 s auto-dismiss timer.       *)
(*                                                                         *)
(* Text is modelled as a sequence of one-character strings, so that        *)
(* parsing, trimming, formatting and substring matching are computed and   *)
(* not assumed.  Numbers are exact decimals (a signed integer and a count  *)
(* of fraction digits).  Where the exact decimal result lies half-way      *)
(* between two hundredths, the binary double the browser computes lies on  *)
(* one side or the other: toFixed is then modelled as a choice between     *)
(* the two neighbours.                                                     *)
(***************************************************************************)
EXTENDS Integers, Sequences, FiniteSets

VARIABLES
    phase,        \* "loading" | "ready" | "navigated": the page's life cycle
    price,        \* text of input[name="price"]
    discount,     \* text of input[name="discount"]
    final_price,  \* text of #final_price
    fired,        \* the field whose input event ran last ("none" before any)
    reads,        \* log of the change events handled: [input, file, status]
    src,          \* src attribute of every image
    lastLoaded,   \* index in reads of the read whose onload ran last (0: none)
    prompts,      \* number of confirmation prompts shown
    lastPrompt,   \* the last prompt: [form, answer], or NoPrompt
    submitted,    \* the form whose submission went through, or "none"
    alerts,       \* the .alert elements of the markup, in document order
    alertsInDom,  \* indices of the alerts still in the DOM
    toasts,       \* the toasts showToast created, in creation order
    body,         \* indices of the toast containers appended to body
    timer         \* "unset" | "pending" | "fired": the setTimeout of line 75

vars == <<phase, price, discount, final_price, fired, reads, src, lastLoaded,
          prompts, lastPrompt, submitted, alerts, alertsInDom, toasts, body,
          timer>>

calcVars == <<price, discount, final_price, fired>>
previewVars == <<reads, src, lastLoaded>>
formVars == <<prompts, lastPrompt, submitted>>
flashVars == <<alerts, alertsInDom, toasts, body, timer>>

(***************************************************************************)
(* Bounds.                                                                 *)
(***************************************************************************)
\* change events handled on file inputs in one behaviour
MaxChanges == 3
\* change events handled in one behaviour of the whole page
PageChanges == 2
\* confirmation prompts shown in one behaviour
MaxPrompts == 2

(***************************************************************************)
(* Text helpers.                                                           *)
(***************************************************************************)
Digits == <<"0", "1", "2", "3", "4", "5", "6", "7", "8", "9">>

IsDigit(c) == \E k \in 1..10 : Digits[k] = c

DigitVal(c) == (CHOOSE k \in 1..10 : Digits[k] = c) - 1

WhiteSpace == {" ", "\t"}

RECURSIVE Pow10(_)
Pow10(n) == IF n = 0 THEN 1 ELSE 10 * Pow10(n - 1)

Abs(n) == IF n < 0 THEN -n ELSE n

\* the decimal value of a sequence of digits (0 for the empty sequence)
RECURSIVE DecValue(_)
DecValue(ds) ==
    IF ds = <<>> THEN 0
    ELSE 10 * DecValue(SubSeq(ds, 1, Len(ds) - 1)) + DigitVal(ds[Len(ds)])

\* the decimal digits of a natural number
RECURSIVE DigitsOf(_)
DigitsOf(k) ==
    IF k < 10 THEN <<Digits[k + 1]>>
    ELSE DigitsOf(k \div 10) \o <<Digits[(k % 10) + 1]>>

RECURSIVE SkipWS(_)
SkipWS(t) ==
    IF t # <<>> /\ Head(t) \in WhiteSpace THEN SkipWS(Tail(t)) ELSE t

\* length of the longest prefix of t made of digits
RECURSIVE DigitRun(_)
DigitRun(t) ==
    IF t # <<>> /\ IsDigit(Head(t)) THEN 1 + DigitRun(Tail(t)) ELSE 0

(***************************************************************************)
(* Price calculator (lines 5-10).                                          *)
(***************************************************************************)
NaN == [nan |-> TRUE, val |-> 0, frac |-> 0]

Zero == [nan |-> FALSE, val |-> 0, frac |-> 0]

\* parseFloat: leading white space is skipped, then the longest prefix that
\* is a decimal literal (sign, digits, "." digits) is read; NaN when there is
\* none.  The number is val * 10^-frac.  (Exponents and "Infinity" are not
\* in the alphabet of the texts drawn below.)
ParseFloat(t) ==
    LET s == SkipWS(t)
        signed == s # <<>> /\ Head(s) \in {"+", "-"}
        neg == signed /\ Head(s) = "-"
        u == IF signed THEN Tail(s) ELSE s
        n1 == DigitRun(u)
        rest == SubSeq(u, n1 + 1, Len(u))
        hasDot == rest # <<>> /\ Head(rest) = "."
        fr == IF hasDot THEN Tail(rest) ELSE <<>>
        n2 == DigitRun(fr)
        mant == DecValue(SubSeq(u, 1, n1) \o SubSeq(fr, 1, n2))
    IN  IF n1 = 0 /\ n2 = 0 THEN NaN
        ELSE [nan |-> FALSE, val |-> IF neg THEN -mant ELSE mant, frac |-> n2]

\* variant of OrZero with the fallback 1 (|| 1)
OrOne(x) == IF x.nan \/ x.val = 0 THEN [nan |-> FALSE, val |-> 1, frac |-> 0] ELSE x

\* x || 0: NaN and (either) zero are falsy
OrZero(x) == IF x.nan \/ x.val = 0 THEN Zero ELSE x

\* variant of FinalPrice that adds the discount
FinalPriceAdd(p, d) ==
    [val |-> p.val * Pow10(d.frac + 2) + p.val * d.val,
     frac |-> p.frac + d.frac + 2]

\* price - (price * discount / 100), exactly: val * 10^-frac
FinalPrice(p, d) ==
    [val |-> p.val * Pow10(d.frac + 2) - p.val * d.val,
     frac |-> p.frac + d.frac + 2]

\* the text of n hundredths, with a "-" when the number formatted is negative
Fixed2(negative, n) ==
    (IF negative THEN <<"-">> ELSE <<>>)
        \o DigitsOf(n \div 100)
        \o <<".", Digits[((n % 100) \div 10) + 1], Digits[(n % 10) + 1]>>

\* x.toFixed(2): the hundredths n nearest to |x|; the set has two members
\* only when the exact decimal is half-way, where the double decides
ToFixed2(x) ==
    LET a == Abs(x.val)
        unit == Pow10(x.frac - 2)
        q == a \div unit
        r == a % unit
        ns == IF 2 * r < unit THEN {q}
              ELSE IF 2 * r > unit THEN {q + 1}
              ELSE {q, q + 1}
    IN  {Fixed2(x.val < 0, n) : n \in ns}

\* the handler of lines 5-10, after field f has been edited to text t
InputEvent(f, t) ==
    /\ phase = "ready"
    /\ price' = IF f = "price" THEN t ELSE price
    /\ discount' = IF f = "discount" THEN t ELSE discount
    /\ final_price' \in
           ToFixed2(FinalPrice(OrZero(ParseFloat(price')),
                               OrZero(ParseFloat(discount'))))
    /\ fired' = f
    /\ UNCHANGED <<phase, previewVars, formVars, flashVars>>

(***************************************************************************)
(* Image preview (lines 13-26).                                            *)
(*                                                                         *)
(* The page: file inputs fi1 and fi2 share a container with the image      *)
(* img1, file input fi3 has no sibling image, and the image logo has no    *)
(* file input beside it.                                                   *)
(***************************************************************************)
FileInputs == {"fi1", "fi2", "fi3"}

Images == {"img1", "logo"}

Parent ==
    [e \in FileInputs \cup Images |->
        IF e \in {"fi1", "fi2", "img1"} THEN "c1"
        ELSE IF e = "fi3" THEN "c2" ELSE "c3"]

Files == {"a.png", "b.png"}

\* e.target.files[0] of an empty selection
NoFile == "nofile"

\* input.siblings('img')
Siblings(i) == {m \in Images : Parent[m] = Parent[i]}

\* the result of readAsDataURL
DataURL(file) == <<"data:", file>>

InitialSrc == [m \in Images |-> <<"/static/", m>>]

\* variant of CanPreview without the test of files[0]
CanPreviewAnyFile(i, file) == Siblings(i) # {}

\* line 17: preview.length && e.target.files && e.target.files[0]
CanPreview(i, file) == Siblings(i) # {} /\ file # NoFile

\* the change handler of lines 13-26
ChangeEvent(i, file) ==
    /\ phase = "ready"
    /\ reads' = Append(reads,
                       [input |-> i, file |-> file,
                        status |-> IF CanPreview(i, file) THEN "pending"
                                   ELSE "none"])
    /\ UNCHANGED <<phase, calcVars, src, lastLoaded, formVars, flashVars>>

\* variant of OnLoadTargets where a superseded read writes nothing
OnLoadTargetsIfLatest(k) ==
    IF \E j \in (k + 1)..Len(reads) : reads[j].status # "none"
    THEN {} ELSE Siblings(reads[k].input)

\* the images the onload callback of read k writes: the preview captured
\* by the closure at line 15
OnLoadTargets(k) == Siblings(reads[k].input)

\* reader.onload of read k (lines 20-22)
ReadLoad(k) ==
    /\ phase = "ready"
    /\ k \in 1..Len(reads)
    /\ reads[k].status = "pending"
    /\ reads' = [reads EXCEPT ![k].status = "loaded"]
    /\ src' = [m \in Images |->
                  IF m \in OnLoadTargets(k) THEN DataURL(reads[k].file)
                  ELSE src[m]]
    /\ lastLoaded' = k
    /\ UNCHANGED <<phase, calcVars, formVars, flashVars>>

\* read k fails: no onerror handler is set, nothing is written
ReadError(k) ==
    /\ phase = "ready"
    /\ k \in 1..Len(reads)
    /\ reads[k].status = "pending"
    /\ reads' = [reads EXCEPT ![k].status = "failed"]
    /\ UNCHANGED <<phase, calcVars, src, lastLoaded, formVars, flashVars>>

(***************************************************************************)
(* Delete confirmation (lines 29-33).                                      *)
(***************************************************************************)
Forms == {"f1", "f2", "f3"}

Action ==
    [f \in Forms |->
        IF f = "f1" THEN <<"/", "d", "e", "l", "e", "t", "e", "/", "7">>
        ELSE IF f = "f2" THEN <<"/", "e", "d", "i", "t", "/", "7">>
        ELSE <<"/", "7", "/", "u", "n", "d", "e", "l", "e", "t", "e">>]

Contains(s, sub) ==
    \E i \in 1..(Len(s) - Len(sub) + 1) : SubSeq(s, i, i + Len(sub) - 1) = sub

\* the selector form[action*="delete"]
Guarded(f) == Contains(Action[f], <<"d", "e", "l", "e", "t", "e">>)

NoPrompt == [form |-> "none", answer |-> FALSE]

\* variant of Prevented with the test of confirm() inverted
PreventedOnAccept(answer) == answer

\* line 30: if (!confirm(...)) e.preventDefault()
Prevented(answer) == ~answer

\* submit event of a guarded form; answer is what the user tells confirm()
SubmitGuarded(f, answer) ==
    /\ phase = "ready"
    /\ Guarded(f)
    /\ prompts < MaxPrompts
    /\ prompts' = prompts + 1
    /\ lastPrompt' = [form |-> f, answer |-> answer]
    /\ IF Prevented(answer)
       THEN UNCHANGED <<phase, submitted>>
       ELSE phase' = "navigated" /\ submitted' = f
    /\ UNCHANGED <<calcVars, previewVars, flashVars>>

\* submit event of a form the selector does not match: no handler runs
SubmitOther(f) ==
    /\ phase = "ready"
    /\ ~Guarded(f)
    /\ phase' = "navigated"
    /\ submitted' = f
    /\ UNCHANGED <<calcVars, previewVars, prompts, lastPrompt, flashVars>>

(***************************************************************************)
(* Toasts and flash messages (lines 36-77).                                *)
(***************************************************************************)
Severities == {"success", "danger", "warning", "info"}

SevClasses == {"alert-success", "alert-danger", "alert-warning", "alert-info"}

\* String.prototype.trim
RECURSIVE TrimRight(_)
TrimRight(t) ==
    IF t # <<>> /\ t[Len(t)] \in WhiteSpace
    THEN TrimRight(SubSeq(t, 1, Len(t) - 1)) ELSE t

Trim(t) == TrimRight(SkipWS(t))

\* variant of SeverityOf that tests alert-danger first
SeverityOfDangerFirst(classes) ==
    IF "alert-danger" \in classes THEN "danger"
    ELSE IF "alert-success" \in classes THEN "success"
    ELSE IF "alert-warning" \in classes THEN "warning"
    ELSE IF "alert-info" \in classes THEN "info"
    ELSE "success"

\* lines 64-67
SeverityOf(classes) ==
    IF "alert-success" \in classes THEN "success"
    ELSE IF "alert-danger" \in classes THEN "danger"
    ELSE IF "alert-warning" \in classes THEN "warning"
    ELSE IF "alert-info" \in classes THEN "info"
    ELSE "success"

\* showToast (lines 36-58): one more container, shown; from names the alert
\* the call was made for
ShowToast(ts, from, message, type) ==
    Append(ts, [from |-> from, message |-> message, type |-> type,
                state |-> "shown"])

\* variant of Converts without the test of the message
ConvertsAlways(message) == TRUE

\* line 69: if (message)
Converts(message) == message # <<>>

\* the each loop of lines 61-72 from alert k on, ts the toasts made so far
RECURSIVE FlashLoop(_, _)
FlashLoop(k, ts) ==
    IF k > Len(alerts) THEN ts
    ELSE LET message == Trim(alerts[k].text)
             type == SeverityOf(alerts[k].classes)
         IN  FlashLoop(k + 1,
                       IF Converts(message)
                       THEN ShowToast(ts, k, message, type) ELSE ts)

\* the document-ready handler (lines 3-78): the handlers are registered, the
\* alerts are walked and the auto-dismiss timer is set
Ready ==
    /\ phase = "loading"
    /\ phase' = "ready"
    /\ toasts' = FlashLoop(1, <<>>)
    /\ body' = 1..Len(toasts')
    /\ timer' = "pending"
    /\ UNCHANGED <<calcVars, previewVars, formVars, alerts, alertsInDom>>

\* the toast starts hiding: its close button (line 44) or Bootstrap's autohide
ToastHide(t) ==
    /\ phase = "ready"
    /\ t \in 1..Len(toasts)
    /\ toasts[t].state = "shown"
    /\ toasts' = [toasts EXCEPT ![t].state = "hiding"]
    /\ UNCHANGED <<phase, calcVars, previewVars, formVars, alerts, alertsInDom,
                   body, timer>>

\* variant of HiddenRemoves that removes every .position-fixed container
HiddenRemovesAll(t) == body

\* line 56: $(this).closest('.position-fixed'), the toast's own container
HiddenRemoves(t) == {t}

\* the hide transition completes: hidden.bs.toast (lines 55-57)
ToastHidden(t) ==
    /\ phase = "ready"
    /\ t \in 1..Len(toasts)
    /\ toasts[t].state = "hiding"
    /\ toasts' = [toasts EXCEPT ![t].state = "hidden"]
    /\ body' = body \ HiddenRemoves(t)
    /\ UNCHANGED <<phase, calcVars, previewVars, formVars, alerts, alertsInDom,
                   timer>>

\* variant of TimerCloses that closes only the alerts shown as toasts
TimerClosesConverted == {a \in alertsInDom : \E t \in 1..Len(toasts) : toasts[t].from = a}

\* line 76: $('.alert'), every alert in the DOM when the timer fires
TimerCloses == alertsInDom

\* the timer of lines 75-77 fires: .alert('close') removes the alerts
TimerFire ==
    /\ phase = "ready"
    /\ timer = "pending"
    /\ timer' = "fired"
    /\ alertsInDom' = alertsInDom \ TimerCloses
    /\ UNCHANGED <<phase, calcVars, previewVars, formVars, alerts, toasts, body>>

(***************************************************************************)
(* The asynchronous flows outstanding on the page and what each writes.    *)
(***************************************************************************)
\* the callbacks that are registered and have not run: the onload of each
\* pending read, the auto-dismiss timer, the hidden.bs.toast handler of each
\* toast; leaving the page tears them all down
PendingFlows ==
    IF phase # "ready" THEN {}
    ELSE {<<"read", k>> : k \in {j \in 1..Len(reads) : reads[j].status = "pending"}}
         \cup (IF timer = "pending" THEN {<<"timer", 0>>} ELSE {})
         \cup {<<"hidden", t>> :
                  t \in {j \in 1..Len(toasts) : toasts[j].state # "hidden"}}

\* the page elements a flow writes when it runs
Writes(f) ==
    IF f[1] = "read" THEN {<<"img", m>> : m \in OnLoadTargets(f[2])}
    ELSE IF f[1] = "timer" THEN {<<"alert", a>> : a \in TimerCloses}
    ELSE {<<"toast", c>> : c \in HiddenRemoves(f[2])}

(***************************************************************************)
(* The inputs drawn: texts typed into the fields, page markups.            *)
(***************************************************************************)
Fields == {"price", "discount"}

\* decimal numerals, each with the number it denotes: val * 10^-frac
Numerals ==
    {[txt |-> <<"0">>, val |-> 0, frac |-> 0],
     [txt |-> <<"1">>, val |-> 1, frac |-> 0],
     [txt |-> <<"5">>, val |-> 5, frac |-> 0],
     [txt |-> <<"1", "0">>, val |-> 10, frac |-> 0],
     [txt |-> <<"1", "2">>, val |-> 12, frac |-> 0],
     [txt |-> <<"1", "0", "0">>, val |-> 100, frac |-> 0],
     [txt |-> <<"1", "5", "0">>, val |-> 150, frac |-> 0],
     [txt |-> <<"0", ".", "1", "0">>, val |-> 10, frac |-> 2],
     [txt |-> <<"1", "9", ".", "9", "9">>, val |-> 1999, frac |-> 2],
     [txt |-> <<"1", "2", ".", "5">>, val |-> 125, frac |-> 1],
     [txt |-> <<"1", ".", "0", "0", "5">>, val |-> 1005, frac |-> 3],
     [txt |-> <<"-", "5">>, val |-> -5, frac |-> 0],
     [txt |-> <<" ", "7", ".", "5">>, val |-> 75, frac |-> 1],
     [txt |-> <<"+", "3">>, val |-> 3, frac |-> 0],
     [txt |-> <<".", "5">>, val |-> 5, frac |-> 1]}

\* texts that are not numerals
OtherTexts ==
    {<<>>,
     <<"a", "b", "c">>,
     <<"1", "2", "a", "b", "c">>,
     <<"5", "%">>,
     <<" ">>,
     <<"-">>,
     <<".">>}

Texts == {n.txt : n \in Numerals} \cup OtherTexts

\* the texts typed in behaviours of the whole page
PageFields == {"price"}

PageTexts == {<<"1", "0">>}

\* the file inputs changed and the files selected there
PageInputs == {"fi1"}

PageFiles == {"a.png", "b.png"}

AlertTexts == {<<>>, <<" ", "\t">>, <<" ", "o", " ", "k", "\t">>}

AlertKinds == [text : AlertTexts, classes : SUBSET SevClasses]

\* alerts of one page of the flash-message behaviours
MaxAlerts == 2

Markups == UNION {[1..n -> AlertKinds] : n \in 0..MaxAlerts}

Saved == <<" ", "o", " ", "k", "\t">>

\* the markups of the behaviours of the whole page
PageMarkups ==
    {<<[text |-> Saved, classes |-> {"alert", "alert-danger", "fade"}],
       [text |-> <<>>, classes |-> {"alert", "alert-success"}],
       [text |-> Saved, classes |-> {"alert"}]>>}

(***************************************************************************)
(* Specifications.                                                         *)
(***************************************************************************)
\* the page as served, before the document-ready handler has run
InitWith(markups) ==
    /\ phase = "loading"
    /\ price = <<>>
    /\ discount = <<>>
    /\ final_price = <<>>
    /\ fired = "none"
    /\ reads = <<>>
    /\ src = InitialSrc
    /\ lastLoaded = 0
    /\ prompts = 0
    /\ lastPrompt = NoPrompt
    /\ submitted = "none"
    /\ alerts \in markups
    /\ alertsInDom = 1..Len(alerts)
    /\ toasts = <<>>
    /\ body = {}
    /\ timer = "unset"

Init == InitWith(PageMarkups)

\* the whole page, with few inputs to each behaviour: the specifications
\* below draw the inputs of one behaviour in full
Next ==
    \/ Ready
    \/ \E f \in PageFields, t \in PageTexts : InputEvent(f, t)
    \/ \E i \in PageInputs, file \in PageFiles :
           Len(reads) < PageChanges /\ ChangeEvent(i, file)
    \/ \E k \in 1..Len(reads) : ReadLoad(k)
    \/ \E k \in 1..Len(reads) : ReadError(k)
    \/ \E f \in Forms, answer \in BOOLEAN : SubmitGuarded(f, answer)
    \/ \E f \in Forms : SubmitOther(f)
    \/ \E t \in 1..Len(toasts) : ToastHide(t)
    \/ \E t \in 1..Len(toasts) : ToastHidden(t)
    \/ TimerFire

Spec == Init /\ [][Next]_vars

\* the price calculator alone, over all the texts
InitCalc == InitWith({<<>>})

NextCalc ==
    \/ Ready
    \/ \E f \in Fields, t \in Texts : InputEvent(f, t)

SpecCalc == InitCalc /\ [][NextCalc]_vars

\* the image preview alone, with a longer log of change events
InitPreview == InitWith({<<>>})

NextPreview ==
    \/ Ready
    \/ \E i \in FileInputs, file \in Files \cup {NoFile} :
           Len(reads) < MaxChanges /\ ChangeEvent(i, file)
    \/ \E k \in 1..Len(reads) : ReadLoad(k)
    \/ \E k \in 1..Len(reads) : ReadError(k)

SpecPreview == InitPreview /\ [][NextPreview]_vars

\* the flash messages alone, over every markup of up to MaxAlerts alerts
InitFlash == InitWith(Markups)

NextFlash ==
    \/ Ready
    \/ \E t \in 1..Len(toasts) : ToastHide(t)
    \/ \E t \in 1..Len(toasts) : ToastHidden(t)
    \/ TimerFire

SpecFlash == InitFlash /\ [][NextFlash]_vars

(***************************************************************************)
(* Properties of the price calculator (checked under SpecCalc).            *)
(***************************************************************************)
IsNumeral(t) == \E n \in Numerals : n.txt = t

\* a text of the form [-]d..d.dd
IsFixed2Text(t) ==
    LET b == IF t # <<>> /\ Head(t) = "-" THEN Tail(t) ELSE t
    IN  /\ Len(b) >= 4
        /\ b[Len(b) - 2] = "."
        /\ \A i \in (1..Len(b)) \ {Len(b) - 2} : IsDigit(b[i])

\* the hundredths a text of that form denotes
Cents(t) ==
    LET neg == Head(t) = "-"
        b == IF neg THEN Tail(t) ELSE t
        v == 100 * DecValue(SubSeq(b, 1, Len(b) - 3))
                 + DecValue(SubSeq(b, Len(b) - 1, Len(b)))
    IN  IF neg THEN -v ELSE v

\* text t is p - p*d/100 rounded to 2 decimals, for the numbers p and d that
\* the numerals p and d denote: no hundredth is nearer to the exact value
RoundedFinal(t, p, d) ==
    LET exact == p.val * Pow10(d.frac + 2) - p.val * d.val
        unit == Pow10(p.frac + d.frac)
    IN  /\ IsFixed2Text(t)
        /\ 2 * Abs(Cents(t) * unit - exact) <= unit

LeadingNumerals(t) ==
    {n \in Numerals : Len(n.txt) <= Len(t) /\ SubSeq(t, 1, Len(n.txt)) = n.txt}

\* the number a field's text stands for: its longest leading numeral, and 0
\* when it starts with none
Denoted(t) ==
    IF LeadingNumerals(t) = {} THEN [txt |-> <<>>, val |-> 0, frac |-> 0]
    ELSE CHOOSE n \in LeadingNumerals(t) :
             \A m \in LeadingNumerals(t) : Len(m.txt) <= Len(n.txt)

ZeroText == <<"0", ".", "0", "0">>

Paired == {"fi1", "fi2"}

\* C7: every change event with a file on a paired input starts a read of
\* its own; a read that is pending can always complete, whatever was
\* selected after it; and the preview image shows the data URL of the read
\* that completed last, which need not be the file selected last.
C7_LastCompletedReadWins ==
    /\ \A k \in 1..Len(reads) :
           (phase = "ready" /\ reads[k].status = "pending")
               => ENABLED ReadLoad(k)
    /\ lastLoaded # 0 =>
           /\ reads[lastLoaded].status = "loaded"
           /\ src["img1"] = <<"data:", reads[lastLoaded].file>>

\* a.png then b.png selected on fi1; b.png's read completed first, a.png's
\* last: the preview shows a.png
C7_Witness ==
    /\ Len(reads) = 2
    /\ reads[1] = [input |-> "fi1", file |-> "a.png", status |-> "loaded"]
    /\ reads[2] = [input |-> "fi1", file |-> "b.png", status |-> "loaded"]
    /\ lastLoaded = 1
    /\ src["img1"] = <<"data:", "a.png">>

\* C8: a change event starts a read only if the input has a sibling image
\* and a file was selected; otherwise no read is started; and the event
\* leaves every image source as it was, a preview set earlier included.
C8_ReadOnlyWhenPairedAndSelected ==
    [][Len(reads') = Len(reads) + 1 =>
          LET e == reads'[Len(reads')]
          IN  /\ e.status = IF e.input \in Paired /\ e.file # NoFile
                            THEN "pending" ELSE "none"
              /\ SubSeq(reads', 1, Len(reads)) = reads
              /\ src' = src]_vars

\* a preview was set, then the selection was cleared and a file was chosen
\* on the input without an image: the preview is still there
C8_Witness ==
    /\ Len(reads) = 3
    /\ reads[1] = [input |-> "fi1", file |-> "a.png", status |-> "loaded"]
    /\ reads[2] = [input |-> "fi1", file |-> NoFile, status |-> "none"]
    /\ reads[3] = [input |-> "fi3", file |-> "b.png", status |-> "none"]
    /\ src = [InitialSrc EXCEPT !["img1"] = <<"data:", "a.png">>]

(***************************************************************************)
(* Properties of the whole page (checked under Spec).                      *)
(***************************************************************************)
\* the forms whose action contains "delete", read off the page
DeleteForms == {"f1", "f3"}

\* C3: the submission of a form whose action contains "delete" goes through
\* only in a step that shows the prompt and gets it accepted; a prompt is
\* shown for such forms only; accepted, the submission goes through;
\* declined, nothing of the page changes.
C3_DeleteNeedsAcceptedPrompt ==
    [][/\ (submitted' # submitted /\ submitted' \in DeleteForms)
              => /\ prompts' = prompts + 1
                 /\ lastPrompt' = [form |-> submitted', answer |-> TRUE]
       /\ prompts' # prompts
              => /\ prompts' = prompts + 1
                 /\ lastPrompt'.form \in DeleteForms
                 /\ IF lastPrompt'.answer
                    THEN submitted' = lastPrompt'.form /\ phase' = "navigated"
                    ELSE UNCHANGED <<phase, submitted, calcVars, previewVars,
                                     flashVars>>]_vars

\* a first prompt was declined (the page stayed), a second was accepted
C3_Witness ==
    /\ prompts = 2
    /\ lastPrompt = [form |-> "f3", answer |-> TRUE]
    /\ submitted = "f3"
    /\ phase = "navigated"

\* C9 as stated: no two outstanding flows have a write to the same element.
C9_NoSharedElement ==
    \A f \in PendingFlows, g \in PendingFlows :
        f # g => Writes(f) \cap Writes(g) = {}

\* C9 amended: two outstanding flows that write the same element are both
\* file-read callbacks and the element is a preview image; the timer, the
\* toast callbacks and the reads otherwise write disjoint elements.
C9_OnlyReadsShareAnImage ==
    \A f \in PendingFlows, g \in PendingFlows :
        (f # g /\ Writes(f) \cap Writes(g) # {})
            => /\ f[1] = "read"
               /\ g[1] = "read"
               /\ Writes(f) \cap Writes(g) \subseteq {<<"img", m>> : m \in Images}

\* two reads of different files are pending on the same image while the
\* timer and a toast callback are outstanding too
C9_Witness ==
    /\ <<"read", 1>> \in PendingFlows
    /\ <<"read", 2>> \in PendingFlows
    /\ reads[1].file # reads[2].file
    /\ <<"img", "img1">> \in Writes(<<"read", 1>>) \cap Writes(<<"read", 2>>)
    /\ <<"timer", 0>> \in PendingFlows
    /\ <<"hidden", 1>> \in PendingFlows

(***************************************************************************)
(* Properties of the flash messages (checked under SpecFlash).             *)
(***************************************************************************)
ClassOf ==
    [s \in Severities |->
        IF s = "success" THEN "alert-success"
        ELSE IF s = "danger" THEN "alert-danger"
        ELSE IF s = "warning" THEN "alert-warning" ELSE "alert-info"]

\* the text has a character that is not white space
Visible(text) == \E i \in 1..Len(text) : text[i] \notin WhiteSpace

\* the text from its first to its last character that is not white space
Core(text) ==
    LET ix == {i \in 1..Len(text) : text[i] \notin WhiteSpace}
        first == CHOOSE i \in ix : \A j \in ix : i <= j
        last == CHOOSE i \in ix : \A j \in ix : j <= i
    IN  IF ix = {} THEN <<>> ELSE SubSeq(text, first, last)

ToastsOf(a) == {t \in 1..Len(toasts) : toasts[t].from = a}

\* toast t carries alert a's text and, when a has one severity class, that
\* severity
Matches(t, a) ==
    /\ toasts[t].message = Core(alerts[a].text)
    /\ \A s \in Severities :
           alerts[a].classes \cap SevClasses = {ClassOf[s]}
               => toasts[t].type = s

\* C4 as stated: every alert present at load has exactly one toast, with
\* its text and its class's severity, whatever its text.
C4_EveryAlertOneToast ==
    phase # "loading" =>
        \A a \in 1..Len(alerts) :
            /\ Cardinality(ToastsOf(a)) = 1
            /\ \A t \in ToastsOf(a) : Matches(t, a)

\* C4 amended: every alert whose text has a character that is not white
\* space has exactly one toast, with its text trimmed and its class's
\* severity; an alert whose text is empty or white space has none.
C4_VisibleAlertOneToast ==
    phase # "loading" =>
        \A a \in 1..Len(alerts) :
            /\ Cardinality(ToastsOf(a)) = IF Visible(alerts[a].text) THEN 1 ELSE 0
            /\ \A t \in ToastsOf(a) : Matches(t, a)

\* a danger alert with text and a warning alert of white space only: one
\* danger toast
C4_Witness ==
    /\ phase = "ready"
    /\ Len(alerts) = 2
    /\ alerts[1] = [text |-> Saved, classes |-> {"alert-danger"}]
    /\ alerts[2] = [text |-> <<" ", "\t">>, classes |-> {"alert-warning"}]
    /\ Len(toasts) = 1
    /\ toasts[1].from = 1
    /\ toasts[1].message = <<"o", " ", "k">>
    /\ toasts[1].type = "danger"

\* C5: the alerts present at load all stay until the timer fires and are
\* all removed when it fires, whether or not a toast was made for an alert
\* and whatever state that toast is in.
C5_TimerClosesEveryAlert ==
    alertsInDom = IF timer = "fired" THEN {} ELSE 1..Len(alerts)

\* the timer has fired on an alert that never had a toast and on one whose
\* toast the user has already dismissed
C5_Witness ==
    /\ timer = "fired"
    /\ Len(alerts) = 2
    /\ ToastsOf(1) = {}
    /\ \E t \in ToastsOf(2) : toasts[t].state = "hidden"
    /\ alertsInDom = {}

\* C6: a toast's container is in the page from showToast until that
\* toast's hide transition completes, and not after: the containers in the
\* page are those of the toasts that are not hidden, so none is left when
\* all are hidden, none is removed early, and hiding one leaves the others.
C6_ContainerRemovedWhenHidden ==
    phase # "loading" =>
        body = {t \in 1..Len(toasts) : toasts[t].state # "hidden"}

\* of two stacked toasts the first is hidden and gone, the second is there
C6_Witness ==
    /\ Len(toasts) = 2
    /\ toasts[1].state = "hidden"
    /\ toasts[2].state = "shown"
    /\ body = {2}

Precedence == <<"success", "danger", "warning", "info">>

\* the severity the precedence order gives a set of classes
Expected(classes) ==
    LET present == {i \in 1..4 : ClassOf[Precedence[i]] \in classes}
    IN  IF present = {} THEN "success"
        ELSE Precedence[CHOOSE i \in present : \A j \in present : i <= j]

\* C10: the severity of every toast made for an alert is the first of
\* success, danger, warning, info whose class the alert carries, success
\* when it carries none, whatever the alert's text.
C10_SeverityByPrecedence ==
    \A t \in 1..Len(toasts) :
        /\ toasts[t].type \in Severities
        /\ toasts[t].type = Expected(alerts[toasts[t].from].classes)

\* an alert with the classes of info, warning and danger became a danger
\* toast, an alert with no severity class a success toast
C10_Witness ==
    /\ Len(toasts) = 2
    /\ alerts[toasts[1].from].classes
           = {"alert-info", "alert-warning", "alert-danger"}
    /\ toasts[1].type = "danger"
    /\ alerts[toasts[2].from].classes = {}
    /\ toasts[2].type = "success"

====
